---- MODULE Spec2Model ----
(***************************************************************************)
(* Model of ExportSelectedLayersToShp (src/ExportSelectedLayersToShp.py):  *)
(* one run of processAlgorithm over the host's layer selection, and the    *)
(* string derivation get_source_name.                                      *)
(*                                                                         *)
(* Strings are sequences of one-character strings, so that split,          *)
(* startswith, basename, splitext and join are computed character by       *)
(* character as the Python library computes them (os.path is posixpath).   *)
(* Calls to the host (os, iface, QgsVectorFileWriter, feedback) and to     *)
(* get_source_name are appended to the call log `calls` in program order.  *)
(* os.makedirs and the writer are taken to return normally; the writer's   *)
(* returned status is chosen by the environment.                           *)
(***************************************************************************)
EXTENDS Integers, Sequences, FiniteSets, TLC

VARIABLES pc, folderExists, output_folder, filename_option, selection,
          selected_layers, idx, filename_base, output_filename, error,
          calls, result

vars == <<pc, folderExists, output_folder, filename_option, selection,
          selected_layers, idx, filename_base, output_filename, error,
          calls, result>>

\* Largest number of layers in the host's selection.
MaxLayers == 2

(* ------------------------------ strings ------------------------------ *)

SEP == <<"/">>
EXTSEP == <<".">>
DOT_SHP == <<".", "s", "h", "p">>
GPKG_MARK == <<".", "g", "p", "k", "g", "|">>
TABLE_KEY == <<"t", "a", "b", "l", "e", "=">>
LAYERNAME_KEY == <<"l", "a", "y", "e", "r", "n", "a", "m", "e", "=">>
DRIVE_C == <<"C", ":">>

\* s[i:] of Python, for a 1-based i
Tail_from(s, i) == SubSeq(s, i, Len(s))

\* sub occurs in s at 1-based position i
OccursAt(s, sub, i) ==
    /\ i >= 1
    /\ i + Len(sub) - 1 <= Len(s)
    /\ SubSeq(s, i, i + Len(sub) - 1) = sub

\* `sub in s`
str_contains(s, sub) == \E i \in 1..(Len(s) + 1) : OccursAt(s, sub, i)

\* s.find(sub), 1-based, 0 when absent
str_find(s, sub) ==
    IF str_contains(s, sub)
    THEN CHOOSE i \in 1..(Len(s) + 1) :
            /\ OccursAt(s, sub, i)
            /\ \A j \in 1..(i - 1) : ~OccursAt(s, sub, j)
    ELSE 0

\* s.rfind(sub), 1-based, 0 when absent
str_rfind(s, sub) ==
    IF str_contains(s, sub)
    THEN CHOOSE i \in 1..(Len(s) + 1) :
            /\ OccursAt(s, sub, i)
            /\ \A j \in (i + 1)..(Len(s) + 1) : ~OccursAt(s, sub, j)
    ELSE 0

str_startswith(s, prefix) == OccursAt(s, prefix, 1)

str_endswith(s, suffix) == OccursAt(s, suffix, Len(s) - Len(suffix) + 1)

\* s.split(sep): the pieces between the non-overlapping occurrences of sep,
\* scanned from the left
RECURSIVE str_split(_, _)
str_split(s, sep) ==
    LET i == str_find(s, sep) IN
    IF i = 0
    THEN <<s>>
    ELSE <<SubSeq(s, 1, i - 1)>> \o str_split(Tail_from(s, i + Len(sep)), sep)

\* seq[-1]
Last(seq) == seq[Len(seq)]

\* posixpath.basename
os_path_basename(p) == Tail_from(p, str_rfind(p, SEP) + 1)

\* genericpath._splitext: the extension starts at the last dot of the last
\* component, unless only dots precede it in that component
os_path_splitext(p) ==
    LET sepIndex == str_rfind(p, SEP)
        dotIndex == str_rfind(p, EXTSEP)
    IN  IF /\ dotIndex > sepIndex
           /\ \E k \in (sepIndex + 1)..(dotIndex - 1) : p[k] # "."
        THEN <<SubSeq(p, 1, dotIndex - 1), Tail_from(p, dotIndex)>>
        ELSE <<p, <<>>>>

\* posixpath.join(a, p)
os_path_join(a, p) ==
    IF str_startswith(p, SEP) THEN p
    ELSE IF a = <<>> \/ str_endswith(a, SEP) THEN a \o p
    ELSE a \o SEP \o p

(* ------------------------------- layers ------------------------------- *)

\* Display names of layers (the host allows two layers of the same name)
LayerNames == { <<"r">>, <<"s">> }

\* A file source: directory prefix, file stem, extension
FileSource(dir, stem, ext) == dir \o stem \o ext

\* A GeoPackage source: container file, key, table, trailing fragments
GpkgSource(file, key, table, rest) == file \o <<"|">> \o key \o table \o rest

GPKG_FILE == <<"/", "g", ".", "g", "p", "k", "g">>
SUBSET_FRAGMENT == <<"|", "s", "u", "b", "s", "e", "t", "=", "x">>

FileDirs == { <<"/", "d", "/">>, <<"C", ":", "/">>, <<"D", ":", "/">>,
              <<"d", "/">> }
FileStems == { <<"a">> }
FileExts == { DOT_SHP }

FileSources ==
    { FileSource(d, st, e) : d \in FileDirs, st \in FileStems, e \in FileExts }

GpkgTables == { <<"t">> }
GpkgRests == { <<>>, SUBSET_FRAGMENT }

GpkgSources ==
    { GpkgSource(GPKG_FILE, TABLE_KEY, t, r) : t \in GpkgTables, r \in GpkgRests }
    \cup { GpkgSource(GPKG_FILE, LAYERNAME_KEY, t, <<>>) : t \in GpkgTables }

\* A memory layer's source is not a path
MemorySources == { <<"P", "?", "c">> }

Sources == FileSources \cup GpkgSources \cup MemorySources

VectorLayers ==
    [name : LayerNames, source : Sources, kind : {"QgsVectorLayer"}]

RasterLayers ==
    [name : { <<"r">> }, source : { <<"/", "d", "/", "a", ".", "t">> },
     kind : {"QgsRasterLayer"}]

HostLayers == VectorLayers \cup RasterLayers

NoLayer == [id |-> 0, name |-> <<>>, source |-> <<>>, kind |-> "None"]

\* isinstance(layer, QgsVectorLayer)
isinstance_QgsVectorLayer(layer) == layer.kind = "QgsVectorLayer"

\* Variant: the selection taken as it is, without the isinstance filter
vector_layers_unfiltered(seq) == seq

\* [x for x in seq if isinstance(x, QgsVectorLayer)]
RECURSIVE vector_layers_of(_)
vector_layers_of(seq) ==
    IF seq = <<>> THEN <<>>
    ELSE (IF isinstance_QgsVectorLayer(Head(seq)) THEN <<Head(seq)>> ELSE <<>>)
         \o vector_layers_of(Tail(seq))

\* Variant: the file-path branch (lines 127-128) left out
get_source_name_no_file_branch(layer) ==
    LET source == layer.source IN
    IF str_contains(source, GPKG_MARK)
    THEN Last(str_split(source, TABLE_KEY))
    ELSE layer.name

\* get_source_name(layer)
get_source_name(layer) ==
    LET source == layer.source IN
    IF str_contains(source, GPKG_MARK)
    THEN Last(str_split(source, TABLE_KEY))
    ELSE IF str_startswith(source, SEP) \/ str_startswith(source, DRIVE_C)
    THEN os_path_splitext(os_path_basename(source))[1]
    ELSE layer.name

(* ------------------------------ the run ------------------------------- *)

OutputFolders == { <<"/", "o">>, <<"/", "o", "/">> }

\* Values of the FILENAME_BASE enum: 0 "Layer Name", 1 "Data Source Name"
FilenameOptions == { 0, 1 }

NoError == <<"NoError", <<>>>>
WriterResults == { NoError, <<"ErrCreateDataSource", <<"E">>>> }

MSG_CREATED == "Output folder created: {0}"
MSG_NONE_SELECTED == "No vector layers selected for export."
MSG_EXPORTED == "Layer {0} exported as {1}"
MSG_ERROR == "Error exporting {0}: {1}"

\* One entry of the call log
Call(op, layer, arg, ret) == [op |-> op, layer |-> layer, arg |-> arg, ret |-> ret]

Message(fmt, args) == [fmt |-> fmt, args |-> args]

Init ==
    /\ pc = "start"
    /\ folderExists \in BOOLEAN
    /\ output_folder \in OutputFolders
    /\ filename_option \in FilenameOptions
    /\ \E n \in 0..MaxLayers :
         \E f \in [1..n -> HostLayers] :
            selection = [i \in 1..n |->
                            [id |-> i, name |-> f[i].name,
                             source |-> f[i].source, kind |-> f[i].kind]]
    /\ selected_layers = <<>>
    /\ idx = 0
    /\ filename_base = <<>>
    /\ output_filename = <<>>
    /\ error = NoError
    /\ calls = <<>>
    /\ result = "unset"

\* Variant: the folder test of line 76 without its negation
CreateOutputFolder_inverted_test ==
    /\ pc = "start"
    /\ IF folderExists
       THEN /\ folderExists' = TRUE
            /\ calls' = calls \o
                 << Call("os.path.exists", NoLayer, output_folder, TRUE),
                    Call("os.makedirs", NoLayer, output_folder, TRUE),
                    Call("pushInfo", NoLayer,
                         Message(MSG_CREATED, <<output_folder>>), TRUE) >>
       ELSE /\ folderExists' = folderExists
            /\ calls' = calls \o
                 << Call("os.path.exists", NoLayer, output_folder, FALSE) >>
    /\ pc' = "select"
    /\ UNCHANGED <<output_folder, filename_option, selection, selected_layers,
                   idx, filename_base, output_filename, error, result>>

\* Lines 75-78: create the output folder if it does not exist
CreateOutputFolder ==
    /\ pc = "start"
    /\ IF ~folderExists
       THEN /\ folderExists' = TRUE
            /\ calls' = calls \o
                 << Call("os.path.exists", NoLayer, output_folder, FALSE),
                    Call("os.makedirs", NoLayer, output_folder, TRUE),
                    Call("pushInfo", NoLayer,
                         Message(MSG_CREATED, <<output_folder>>), TRUE) >>
       ELSE /\ folderExists' = folderExists
            /\ calls' = calls \o
                 << Call("os.path.exists", NoLayer, output_folder, TRUE) >>
    /\ pc' = "select"
    /\ UNCHANGED <<output_folder, filename_option, selection, selected_layers,
                   idx, filename_base, output_filename, error, result>>

\* Lines 81-84: read the selection, keep the vector layers
SelectLayers ==
    /\ pc = "select"
    /\ selected_layers' = vector_layers_of(selection)
    /\ calls' = Append(calls, Call("selectedLayers", NoLayer, <<>>, TRUE))
    /\ pc' = "check"
    /\ UNCHANGED <<folderExists, output_folder, filename_option, selection,
                   idx, filename_base, output_filename, error, result>>

\* Variant: the abort returns without the warning of line 88
AbortNoLayers_silent ==
    /\ pc = "check"
    /\ selected_layers = <<>>
    /\ result' = "{}"
    /\ pc' = "done"
    /\ UNCHANGED <<folderExists, output_folder, filename_option, selection,
                   selected_layers, idx, filename_base, output_filename, error,
                   calls>>

\* Lines 87-89: no vector layer selected
AbortNoLayers ==
    /\ pc = "check"
    /\ selected_layers = <<>>
    /\ calls' = Append(calls, Call("pushWarning", NoLayer,
                                   Message(MSG_NONE_SELECTED, <<>>), TRUE))
    /\ result' = "{}"
    /\ pc' = "done"
    /\ UNCHANGED <<folderExists, output_folder, filename_option, selection,
                   selected_layers, idx, filename_base, output_filename, error>>

\* Line 92: enter the loop
EnterLoop ==
    /\ pc = "check"
    /\ selected_layers # <<>>
    /\ idx' = 1
    /\ pc' = "export"
    /\ UNCHANGED <<folderExists, output_folder, filename_option, selection,
                   selected_layers, filename_base, output_filename, error,
                   calls, result>>

\* Variant: the two naming branches of lines 93-98 swapped
ExportLayer_swapped_option ==
    /\ pc = "export"
    /\ idx <= Len(selected_layers)
    /\ LET layer == selected_layers[idx]
           base == IF filename_option = 0
                   THEN get_source_name(layer)
                   ELSE layer.name
           named == IF filename_option = 0
                    THEN << Call("get_source_name", layer, layer.source, base) >>
                    ELSE <<>>
           path == os_path_join(output_folder, base \o DOT_SHP)
       IN  \E status \in WriterResults :
              /\ filename_base' = base
              /\ output_filename' = path
              /\ error' = status
              /\ calls' = calls \o named \o
                   << Call("writeAsVectorFormat", layer, path, status) >>
    /\ pc' = "report"
    /\ UNCHANGED <<folderExists, output_folder, filename_option, selection,
                   selected_layers, idx, result>>

\* Lines 93-104: name the output file and call the writer
ExportLayer ==
    /\ pc = "export"
    /\ idx <= Len(selected_layers)
    /\ LET layer == selected_layers[idx]
           base == IF filename_option = 0
                   THEN layer.name
                   ELSE get_source_name(layer)
           named == IF filename_option = 0
                    THEN <<>>
                    ELSE << Call("get_source_name", layer, layer.source, base) >>
           path == os_path_join(output_folder, base \o DOT_SHP)
       IN  \E status \in WriterResults :
              /\ filename_base' = base
              /\ output_filename' = path
              /\ error' = status
              /\ calls' = calls \o named \o
                   << Call("writeAsVectorFormat", layer, path, status) >>
    /\ pc' = "report"
    /\ UNCHANGED <<folderExists, output_folder, filename_option, selection,
                   selected_layers, idx, result>>

\* Variant: the loop is left at the first writer error
ReportLayer_stop_on_error ==
    /\ pc = "report"
    /\ LET layer == selected_layers[idx] IN
       IF error[1] = NoError[1]
       THEN calls' = Append(calls, Call("pushInfo", layer,
                        Message(MSG_EXPORTED, <<layer.name, output_filename>>), TRUE))
       ELSE calls' = Append(calls, Call("pushWarning", layer,
                        Message(MSG_ERROR, <<layer.name, error[2]>>), TRUE))
    /\ idx' = IF error[1] = NoError[1] THEN idx + 1 ELSE Len(selected_layers) + 1
    /\ pc' = "export"
    /\ UNCHANGED <<folderExists, output_folder, filename_option, selection,
                   selected_layers, filename_base, output_filename, error, result>>

\* Variant: the status test of line 106 inverted
ReportLayer_inverted_status ==
    /\ pc = "report"
    /\ LET layer == selected_layers[idx] IN
       IF error[1] # NoError[1]
       THEN calls' = Append(calls, Call("pushInfo", layer,
                        Message(MSG_EXPORTED, <<layer.name, output_filename>>), TRUE))
       ELSE calls' = Append(calls, Call("pushWarning", layer,
                        Message(MSG_ERROR, <<layer.name, error[2]>>), TRUE))
    /\ idx' = idx + 1
    /\ pc' = "export"
    /\ UNCHANGED <<folderExists, output_folder, filename_option, selection,
                   selected_layers, filename_base, output_filename, error, result>>

\* Lines 106-109: report the writer's status, go to the next layer
ReportLayer ==
    /\ pc = "report"
    /\ LET layer == selected_layers[idx] IN
       IF error[1] = NoError[1]
       THEN calls' = Append(calls, Call("pushInfo", layer,
                        Message(MSG_EXPORTED, <<layer.name, output_filename>>), TRUE))
       ELSE calls' = Append(calls, Call("pushWarning", layer,
                        Message(MSG_ERROR, <<layer.name, error[2]>>), TRUE))
    /\ idx' = idx + 1
    /\ pc' = "export"
    /\ UNCHANGED <<folderExists, output_folder, filename_option, selection,
                   selected_layers, filename_base, output_filename, error, result>>

\* Line 111: the loop is exhausted
Return ==
    /\ pc = "export"
    /\ idx > Len(selected_layers)
    /\ result' = "{}"
    /\ pc' = "done"
    /\ UNCHANGED <<folderExists, output_folder, filename_option, selection,
                   selected_layers, idx, filename_base, output_filename, error,
                   calls>>

Next ==
    \/ CreateOutputFolder
    \/ SelectLayers
    \/ AbortNoLayers
    \/ EnterLoop
    \/ ExportLayer
    \/ ReportLayer
    \/ Return

Spec == Init /\ [][Next]_vars

(* ------------------------------ properties ---------------------------- *)

IsWriterCall(c) == c.op = "writeAsVectorFormat"
IsFeedback(c) == c.op \in {"pushInfo", "pushWarning"}
IsNameCall(c) == c.op = "get_source_name"

WriterCalls == SelectSeq(calls, IsWriterCall)
NameCalls == SelectSeq(calls, IsNameCall)
Warnings == SelectSeq(calls, LAMBDA c : c.op = "pushWarning")

LayersWritten == [k \in 1..Len(WriterCalls) |-> WriterCalls[k].layer]

\* The selected layers whose kind is QgsVectorLayer, in selection order
SelectedVectors == SelectSeq(selection, LAMBDA l : l.kind = "QgsVectorLayer")

IsPrefix(s, t) == Len(s) <= Len(t) /\ SubSeq(t, 1, Len(s)) = s

\* C1: the writer is called once per selected vector layer, in selection
\* order, whatever status it returned for earlier layers: the layers written
\* so far are always a prefix of the selected vector layers, and all of them
\* when the run has returned.
C1_WriterOncePerLayerInOrder ==
    /\ IsPrefix(LayersWritten, SelectedVectors)
    /\ pc = "done" => LayersWritten = SelectedVectors

C1_Witness ==
    /\ pc = "done"
    /\ Len(WriterCalls) >= 2
    /\ WriterCalls[1].ret[1] # "NoError"

\* C2: every layer passed to the writer, and every layer a feedback message
\* is about, is a vector layer of the host's selection.
C2_OnlyVectorLayersExported ==
    \A k \in 1..Len(calls) :
        calls[k].layer # NoLayer =>
            /\ calls[k].layer.kind = "QgsVectorLayer"
            /\ \E i \in 1..Len(selection) : selection[i] = calls[k].layer

C2_Witness ==
    /\ pc = "done"
    /\ Len(WriterCalls) >= 1
    /\ \E i \in 1..Len(selection) : selection[i].kind = "QgsRasterLayer"

\* C3: each writer call is followed at once by exactly one feedback message
\* about the same layer, an info message iff the returned status is NoError
\* and a warning carrying the writer's error text otherwise; a message about
\* a layer only ever follows that layer's writer call.
C3_ReportMatchesStatus ==
    \A k \in 1..Len(calls) :
        /\ IsWriterCall(calls[k]) =>
              /\ k = Len(calls) => pc = "report"
              /\ k < Len(calls) =>
                    LET m == calls[k + 1] IN
                    /\ m.layer = calls[k].layer
                    /\ IF calls[k].ret[1] = "NoError"
                       THEN /\ m.op = "pushInfo"
                            /\ m.arg.fmt = MSG_EXPORTED
                       ELSE /\ m.op = "pushWarning"
                            /\ m.arg.fmt = MSG_ERROR
                            /\ m.arg.args[2] = calls[k].ret[2]
              /\ k + 2 <= Len(calls) => ~IsFeedback(calls[k + 2])
        /\ (IsFeedback(calls[k]) /\ calls[k].layer # NoLayer) =>
              /\ k > 1
              /\ IsWriterCall(calls[k - 1])
              /\ calls[k - 1].layer = calls[k].layer

C3_Witness ==
    /\ pc = "done"
    /\ \E j, k \in 1..Len(calls) :
          /\ calls[j].op = "pushInfo" /\ calls[j].layer # NoLayer
          /\ calls[k].op = "pushWarning" /\ calls[k].layer # NoLayer

\* C4: the path passed to the writer is the output folder joined with
\* '<base>.shp', <base> being the layer's display name under option 0 and
\* get_source_name(layer) under any other option; one option value serves
\* all layers of the run.
C4_FilenameFollowsOption ==
    \A k \in 1..Len(calls) :
        IsWriterCall(calls[k]) =>
            calls[k].arg =
                os_path_join(output_folder,
                             (IF filename_option = 0
                              THEN calls[k].layer.name
                              ELSE get_source_name(calls[k].layer)) \o DOT_SHP)

C4_Witness ==
    /\ pc = "done"
    /\ filename_option # 0
    /\ Len(WriterCalls) >= 2
    /\ \A k \in 1..Len(WriterCalls) :
          get_source_name(WriterCalls[k].layer) # WriterCalls[k].layer.name

\* C5 (as claimed): for a GeoPackage source, get_source_name returns exactly
\* the table identifier that follows `table=`, without trailing fragments.
C5_GpkgTableName ==
    \A k \in 1..Len(calls) :
        IsNameCall(calls[k]) =>
            \A t \in GpkgTables, r \in GpkgRests :
                calls[k].arg = GpkgSource(GPKG_FILE, TABLE_KEY, t, r)
                    => calls[k].ret = t

\* C6 (as claimed): for a file path that is not a GeoPackage source,
\* get_source_name returns the base name without its extension, whatever
\* drive or root the path starts with, and for relative paths.
C6_FileStem ==
    \A k \in 1..Len(calls) :
        IsNameCall(calls[k]) =>
            \A d \in FileDirs, st \in FileStems, e \in FileExts :
                calls[k].arg = FileSource(d, st, e) => calls[k].ret = st

\* C7 (as claimed): two layers with the same source string get the same
\* name from get_source_name, whatever their display names.
C7_NameDependsOnSourceOnly ==
    \A j, k \in 1..Len(calls) :
        (IsNameCall(calls[j]) /\ IsNameCall(calls[k])
            /\ calls[j].arg = calls[k].arg)
        => calls[j].ret = calls[k].ret

\* The sources get_source_name derives a name from
IsDerivableSource(source) ==
    \/ str_contains(source, GPKG_MARK)
    \/ str_startswith(source, SEP)
    \/ str_startswith(source, DRIVE_C)

\* C7 (amended): two layers with the same source string get the same name
\* when the source contains '.gpkg|' or starts with '/' or 'C:'; for any
\* other source get_source_name returns the layer's display name.
C7_NameDependsOnSourceOrFallback ==
    /\ \A j, k \in 1..Len(calls) :
          (IsNameCall(calls[j]) /\ IsNameCall(calls[k])
              /\ calls[j].arg = calls[k].arg
              /\ IsDerivableSource(calls[j].arg))
          => calls[j].ret = calls[k].ret
    /\ \A k \in 1..Len(calls) :
          (IsNameCall(calls[k]) /\ ~IsDerivableSource(calls[k].arg))
          => calls[k].ret = calls[k].layer.name

C7_Witness ==
    \E j, k \in 1..Len(calls) :
        /\ IsNameCall(calls[j]) /\ IsNameCall(calls[k])
        /\ calls[j].arg = calls[k].arg
        /\ IsDerivableSource(calls[j].arg)
        /\ calls[j].layer.name # calls[k].layer.name

CreatedMessage == Message(MSG_CREATED, <<output_folder>>)

\* C8: a missing output folder is created, and 'Output folder created' is
\* reported, before the selection is read and before any writer call; an
\* existing folder gets neither a makedirs call nor the message; the folder
\* exists from then on, at every writer call and when the run has returned.
C8_FolderCreatedFirst ==
    /\ [](pc # "start" =>
            /\ folderExists
            /\ calls[1].op = "os.path.exists"
            /\ IF calls[1].ret
               THEN \A k \in 1..Len(calls) :
                       /\ calls[k].op # "os.makedirs"
                       /\ calls[k].op = "pushInfo" => calls[k].arg # CreatedMessage
               ELSE /\ calls[2].op = "os.makedirs"
                    /\ calls[2].arg = output_folder
                    /\ calls[3].op = "pushInfo"
                    /\ calls[3].arg = CreatedMessage
                    /\ \A k \in 4..Len(calls) :
                          /\ calls[k].op # "os.makedirs"
                          /\ calls[k].op = "pushInfo" => calls[k].arg # CreatedMessage)
    /\ [][pc = "start" => calls'[1].ret = folderExists]_vars

C8_Witness ==
    /\ pc = "done"
    /\ calls[1].ret = FALSE
    /\ Len(WriterCalls) >= 1

\* C9: with no vector layer in the selection the run emits exactly one
\* warning, 'No vector layers selected for export.', calls the writer never
\* and returns the empty result, the output folder existing all the same.
C9_EmptySelectionAborts ==
    (pc = "done" /\ SelectedVectors = <<>>) =>
        /\ Len(Warnings) = 1
        /\ Warnings[1].arg = Message(MSG_NONE_SELECTED, <<>>)
        /\ WriterCalls = <<>>
        /\ result = "{}"
        /\ folderExists

C9_Witness ==
    /\ pc = "done"
    /\ selection # <<>>
    /\ SelectedVectors = <<>>
    /\ calls[1].ret = FALSE

\* C10 (as claimed): distinct selected vector layers are written to distinct
\* output paths.
C10_DistinctOutputPaths ==
    \A j, k \in 1..Len(WriterCalls) :
        WriterCalls[j].layer # WriterCalls[k].layer
            => WriterCalls[j].arg # WriterCalls[k].arg

====
